---------------------------- MODULE Spec2Model ----------------------------
(***************************************************************************)
(* btc-staker: the stakercli "transaction" commands                        *)
(* (cmd/stakercli/transaction/transactions.go) and the staker daemon's     *)
(* JSON-RPC client (StakerServiceJsonRpcClient).                           *)
(*                                                                         *)
(* Conventions.                                                            *)
(*  - A Go string is a sequence of one-character strings; a []byte is a    *)
(*    sequence of integers 0..255.                                         *)
(*  - A Go error is a record [msg, arg]: the message text and the value    *)
(*    formatted into it.  NoErr is the nil error.                          *)
(*  - TLC's integers are 32 bits wide, so a uint64 flag value is a record  *)
(*    [hi, lo] of its two 32-bit words (value = hi * 2^32 + lo).           *)
(***************************************************************************)
EXTENDS Integers, Sequences, FiniteSets, TLC

VARIABLES
    timeIn,     \* the staking-time-blocks flag value handed to the parser
    timeOut,    \* what parseStakingTimeBlocksFromCliCtx returned for it
    magicIn,    \* the magic-bytes hex string handed to the parser
    magicOut,   \* what parseMagicBytesFromHex returned for it
    createRun,  \* the create-phase1-staking-transaction invocation: its command
                \* line, the error returned, the output, the library calls
    checkRun,   \* the check-phase1-staking-transaction invocation, likewise
    jsonRun,    \* the create-phase1-staking-transaction-json invocation: its
                \* argument, the file found at that path, the error returned,
                \* the output
    rpcCall,    \* the last call made on the RPC client, one call at a time:
                \* the operation, the request sent, the transport's outcome,
                \* what the operation returned
    client,     \* the RPC client's transport handle
    rpcCalls    \* the calls made concurrently on the RPC client, by caller

vars == <<timeIn, timeOut, magicIn, magicOut, createRun, checkRun, jsonRun,
          rpcCall, client, rpcCalls>>

\* The field names of the model's records, in the one order every record
\* below lists them.
RecordFields ==
    [msg |-> 0, pending |-> 1, bytes |-> 2, hi |-> 3, version |-> 4,
     ok |-> 5, fn |-> 6, resp |-> 7, network |-> 8, type |-> 9,
     method |-> 10, result |-> 11, stakerAddress |-> 12, none |-> 13,
     st |-> 14, net |-> 15, text |-> 16, exists |-> 17, path |-> 18,
     offset |-> 19, arg |-> 20, lo |-> 21, ins |-> 22, val |-> 23, tx |-> 24,
     stakerKey |-> 25, params |-> 26, op |-> 27, stakerPk |-> 28,
     txHex |-> 29, wellFormed |-> 30, readable |-> 31, file |-> 32,
     limit |-> 33, outs |-> 34, next |-> 35, err |-> 36,
     finalityProviderKey |-> 37, args |-> 38, fpPk |-> 39, typed |-> 40,
     doc |-> 41, lockTime |-> 42, out |-> 43, fill |-> 44,
     covenantKeys |-> 45, outcome |-> 46, amount |-> 47, present |-> 48,
     calls |-> 49, covenantQuorum |-> 50, request |-> 51, time |-> 52,
     vals |-> 53, stakingAmount |-> 54, ret |-> 55, magic |-> 56,
     validatorPk |-> 57, ctxDone |-> 58, covPks |-> 59,
     stakingTimeBlocks |-> 60, peers |-> 61, quorum |-> 62,
     magicBytes |-> 63, made |-> 64, nKeys |-> 65, libRejects |-> 66,
     abortedBefore |-> 67]

(***************************************************************************)
(* Bounds of the model.                                                    *)
(***************************************************************************)
\* staking-time inputs are taken this far around each boundary value
TimeSpread == 12
\* magic-bytes hex strings of up to this many characters
MaxHexLen == 10
\* covenant committees of up to this many keys
MaxCovKeys == 3
\* offset and limit arguments of the paginated RPC operations: 0..MaxPage
MaxPage == 2
\* callers that use the RPC client at the same time
MaxCallers == 2
\* calls they make on it altogether
MaxCalls == 3

(***************************************************************************)
(* Errors and results.                                                     *)
(***************************************************************************)
Err(msg, arg) == [msg |-> msg, arg |-> arg]
NoErr == Err("", "")
Pending == [pending |-> TRUE]

RepeatSeq(x, n) == [i \in 1..n |-> x]

(***************************************************************************)
(* encoding/hex                                                            *)
(***************************************************************************)
HexDigits == <<"0", "1", "2", "3", "4", "5", "6", "7",
               "8", "9", "a", "b", "c", "d", "e", "f">>
UpperHexDigits == <<"A", "B", "C", "D", "E", "F">>

\* fromHexChar: the digit's value, or 16 (> 0x0f) for a character that is none
HexVal(c) ==
    IF \E i \in 1..16 : HexDigits[i] = c
    THEN (CHOOSE i \in 1..16 : HexDigits[i] = c) - 1
    ELSE IF \E i \in 1..6 : UpperHexDigits[i] = c
         THEN (CHOOSE i \in 1..6 : UpperHexDigits[i] = c) + 9
         ELSE 16

\* hex.DecodeString: pairs are decoded left to right, the first character that
\* is no hex digit is an InvalidByteError, an odd length with only digits is
\* ErrLength
HexDecodeString(s) ==
    LET n     == Len(s)
        pairs == n \div 2
        badAt == {i \in 1..n : HexVal(s[i]) > 15}
        \* the loop reads pairs; the odd last character is looked at afterwards
        firstBad == CHOOSE i \in badAt : \A j \in badAt : i <= j
    IN IF badAt # {}
       THEN [bytes |-> <<>>, err |-> Err("encoding/hex: invalid byte", s[firstBad])]
       ELSE IF n % 2 = 1
            THEN [bytes |-> <<>>, err |-> Err("encoding/hex: odd length hex string", "")]
            ELSE [bytes |-> [i \in 1..pairs |->
                               HexVal(s[2 * i - 1]) * 16 + HexVal(s[2 * i])],
                  err |-> NoErr]

\* hex.EncodeToString: two lower-case digits per byte
HexEncodeToString(b) ==
    [i \in 1..(2 * Len(b)) |->
        IF i % 2 = 1 THEN HexDigits[(b[(i + 1) \div 2] \div 16) + 1]
                     ELSE HexDigits[(b[i \div 2] % 16) + 1]]

(***************************************************************************)
(* parseStakingTimeBlocksFromCliCtx                                        *)
(***************************************************************************)
MaxUint16 == 65535

\* uint16(x): the low 16 bits
ToUint16(x) == x % 65536

parseStakingTimeBlocksNoUpperCheck(timeBlocks) ==
    IF timeBlocks <= 0
    THEN [val |-> 0, err |-> Err("staking time blocks should be greater than 0", "")]
    ELSE [val |-> ToUint16(timeBlocks), err |-> NoErr]

parseStakingTimeBlocksFromCliCtx(timeBlocks) ==
    IF timeBlocks <= 0
    THEN [val |-> 0, err |-> Err("staking time blocks should be greater than 0", "")]
    ELSE IF timeBlocks > MaxUint16
         THEN [val |-> 0,
               err |-> Err("staking time blocks should be less or equal to",
                           ToString(MaxUint16))]
         ELSE [val |-> ToUint16(timeBlocks), err |-> NoErr]

(***************************************************************************)
(* parseMagicBytesFromHex                                                  *)
(***************************************************************************)
MagicBytesLen == 4

parseMagicBytesAtMostLen(magicBytesHex) ==
    LET d == HexDecodeString(magicBytesHex)
    IN IF d.err # NoErr
       THEN [val |-> <<>>, err |-> d.err]
       ELSE IF Len(d.bytes) > MagicBytesLen
            THEN [val |-> <<>>,
                  err |-> Err("magic bytes should be of length", ToString(MagicBytesLen))]
            ELSE [val |-> d.bytes, err |-> NoErr]

parseMagicBytesFromHex(magicBytesHex) ==
    LET d == HexDecodeString(magicBytesHex)
    IN IF d.err # NoErr
       THEN [val |-> <<>>, err |-> d.err]
       ELSE IF Len(d.bytes) # MagicBytesLen
            THEN [val |-> <<>>,
                  err |-> Err("magic bytes should be of length", ToString(MagicBytesLen))]
            ELSE [val |-> d.bytes, err |-> NoErr]

(***************************************************************************)
(* Key parsing: parseSchnorPubKeyFromHex, parseCovenantKeysFromSlice.      *)
(* A parsed public key is its 32-byte x coordinate.                        *)
(***************************************************************************)
PubKeyBytesLen == 32

\* schnorr.ParsePubKey lifts x to a curve point.  No point of the curve has
\* x = 0; the other sample coordinates of the model are taken to be on it.
OnCurve(x) == \E i \in 1..Len(x) : x[i] # 0

schnorrParsePubKey(pkBytes) ==
    IF Len(pkBytes) # PubKeyBytesLen
    THEN [val |-> <<>>,
          err |-> Err("malformed public key: invalid length", ToString(Len(pkBytes)))]
    ELSE IF ~OnCurve(pkBytes)
         THEN [val |-> <<>>, err |-> Err("invalid public key: x coordinate is not on the curve", "")]
         ELSE [val |-> pkBytes, err |-> NoErr]

parseSchnorPubKeyFromHex(pkHex) ==
    LET d == HexDecodeString(pkHex)
    IN IF d.err # NoErr
       THEN [val |-> <<>>, err |-> d.err]
       ELSE schnorrParsePubKey(d.bytes)

\* the loop returns at the first element that does not parse
parseCovenantKeysFromSlice(covenantMembersPks) ==
    LET parsed == [i \in 1..Len(covenantMembersPks) |->
                      parseSchnorPubKeyFromHex(covenantMembersPks[i])]
        bad    == {i \in 1..Len(parsed) : parsed[i].err # NoErr}
    IN IF bad # {}
       THEN [val |-> <<>>,
             err |-> parsed[CHOOSE i \in bad : \A j \in bad : i <= j].err]
       ELSE [val |-> [i \in 1..Len(parsed) |-> parsed[i].val], err |-> NoErr]

(***************************************************************************)
(* parseStakingAmountFromCliCtx                                            *)
(***************************************************************************)
parseStakingAmountAllowZero(amt) ==
    IF amt < 0
    THEN [val |-> 0, err |-> Err("staking amount should be greater than 0", "")]
    ELSE [val |-> amt, err |-> NoErr]

parseStakingAmountFromCliCtx(amt) ==
    IF amt <= 0
    THEN [val |-> 0, err |-> Err("staking amount should be greater than 0", "")]
    ELSE [val |-> amt, err |-> NoErr]

(***************************************************************************)
(* utils.GetBtcNetworkParams: the network name resolves to one of the five *)
(* chain parameter sets, or the lookup fails naming the input.             *)
(***************************************************************************)
KnownNetworks == {"mainnet", "testnet3", "regtest", "simnet", "signet"}

GetBtcNetworkParams(net) ==
    IF net \in KnownNetworks
    THEN [val |-> net, err |-> NoErr]
    ELSE [val |-> "", err |-> Err("unknown network", net)]

(***************************************************************************)
(* The covenant-quorum flag: cli.Uint64Flag, then uint32(...).             *)
(***************************************************************************)
U64(hi, lo) == [hi |-> hi, lo |-> lo]

\* uint32(x): the low word, the high word is dropped
ToUint32(x) == x.lo

\* x > n as numbers, for a small n
U64GreaterThan(x, n) == x.hi > 0 \/ x.lo > n

(***************************************************************************)
(* Bitcoin wire format of a transaction (wire.MsgTx), as                   *)
(* utils.SerializeBtcTransaction writes it and bbn.NewBTCTxFromHex reads   *)
(* it.  A transaction is [version, ins, outs, lockTime]; an input or an    *)
(* output is kept as its serialized bytes.                                 *)
(***************************************************************************)
RECURSIVE Flatten(_)
Flatten(ss) == IF ss = <<>> THEN <<>> ELSE Head(ss) \o Flatten(Tail(ss))

\* little-endian, 4 and 8 bytes, of a value below 2^31
U32LE(n) == <<n % 256, (n \div 256) % 256, (n \div 65536) % 256, (n \div 16777216) % 256>>
U64LE(n) == U32LE(n) \o <<0, 0, 0, 0>>

\* wire.TxOut: value, script length, script
TxOutBytes(value, pkScript) == U64LE(value) \o <<Len(pkScript)>> \o pkScript

\* wire.TxIn: previous outpoint (hash, index), empty signature script, sequence
TxInBytes(hashByte, index) ==
    RepeatSeq(hashByte, 32) \o U32LE(index) \o <<0>> \o <<255, 255, 255, 255>>

\* MsgTx.Serialize of a transaction without witness data: version, input
\* count, inputs, output count, outputs, lock time
SerializeBtcTransaction(tx) ==
    U32LE(tx.version) \o <<Len(tx.ins)>> \o Flatten(tx.ins)
        \o <<Len(tx.outs)>> \o Flatten(tx.outs) \o U32LE(tx.lockTime)

WireFail(msg) == [tx |-> [version |-> 0, ins |-> <<>>, outs |-> <<>>, lockTime |-> 0],
                  err |-> Err(msg, "")]

\* a variable length integer at position p: one byte below 0xfd (the longer
\* forms do not occur in the transactions of the model)
ReadVarInt(b, p) ==
    IF p > Len(b) THEN [ok |-> FALSE, val |-> 0, next |-> p]
    ELSE IF b[p] >= 253 THEN [ok |-> FALSE, val |-> 0, next |-> p]
    ELSE [ok |-> TRUE, val |-> b[p], next |-> p + 1]

\* readTxIn: 36 bytes of outpoint, the script, 4 bytes of sequence
ReadTxIn(b, p) ==
    LET sl == ReadVarInt(b, p + 36)
        q  == sl.next + sl.val + 4
    IN IF ~sl.ok \/ q - 1 > Len(b)
       THEN [ok |-> FALSE, val |-> <<>>, next |-> p]
       ELSE [ok |-> TRUE, val |-> SubSeq(b, p, q - 1), next |-> q]

\* readTxOut: 8 bytes of value, the script
ReadTxOut(b, p) ==
    LET sl == ReadVarInt(b, p + 8)
        q  == sl.next + sl.val
    IN IF ~sl.ok \/ q - 1 > Len(b)
       THEN [ok |-> FALSE, val |-> <<>>, next |-> p]
       ELSE [ok |-> TRUE, val |-> SubSeq(b, p, q - 1), next |-> q]

RECURSIVE ReadTxIns(_, _, _)
ReadTxIns(b, p, k) ==
    IF k = 0 THEN [ok |-> TRUE, val |-> <<>>, next |-> p]
    ELSE LET one == ReadTxIn(b, p)
         IN IF ~one.ok THEN [ok |-> FALSE, val |-> <<>>, next |-> p]
            ELSE LET rest == ReadTxIns(b, one.next, k - 1)
                 IN [ok |-> rest.ok, val |-> <<one.val>> \o rest.val, next |-> rest.next]

RECURSIVE ReadTxOuts(_, _, _)
ReadTxOuts(b, p, k) ==
    IF k = 0 THEN [ok |-> TRUE, val |-> <<>>, next |-> p]
    ELSE LET one == ReadTxOut(b, p)
         IN IF ~one.ok THEN [ok |-> FALSE, val |-> <<>>, next |-> p]
            ELSE LET rest == ReadTxOuts(b, one.next, k - 1)
                 IN [ok |-> rest.ok, val |-> <<one.val>> \o rest.val, next |-> rest.next]

\* a witness item (length, bytes), k of them
RECURSIVE SkipWitnessItems(_, _, _)
SkipWitnessItems(b, p, k) ==
    IF k = 0 THEN [ok |-> TRUE, next |-> p]
    ELSE LET sl == ReadVarInt(b, p)
         IN IF ~sl.ok \/ sl.next + sl.val - 1 > Len(b)
            THEN [ok |-> FALSE, next |-> p]
            ELSE SkipWitnessItems(b, sl.next + sl.val, k - 1)

\* the witness stack (item count, items) of each of k inputs
RECURSIVE SkipWitnesses(_, _, _)
SkipWitnesses(b, p, k) ==
    IF k = 0 THEN [ok |-> TRUE, next |-> p]
    ELSE LET cnt == ReadVarInt(b, p)
         IN IF ~cnt.ok THEN [ok |-> FALSE, next |-> p]
            ELSE LET items == SkipWitnessItems(b, cnt.next, cnt.val)
                 IN IF ~items.ok THEN [ok |-> FALSE, next |-> p]
                    ELSE SkipWitnesses(b, items.next, k - 1)

\* MsgTx.Deserialize (witness encoding): an input count of zero is the
\* segregated-witness marker, and the byte after it is the flag, which must
\* be 0x01; the real input count follows the flag
MsgTxDeserialize(b) ==
    IF Len(b) < 4 THEN WireFail("unexpected EOF")
    ELSE
    LET version == b[1] + 256 * b[2] + 65536 * b[3]
        count0  == ReadVarInt(b, 5)
        marker  == count0.ok /\ count0.val = 0
        flagOk  == marker /\ count0.next <= Len(b)
        flag    == IF flagOk THEN b[count0.next] ELSE 0
        count   == IF marker THEN ReadVarInt(b, count0.next + 1) ELSE count0
        ins     == ReadTxIns(b, count.next, count.val)
        nOut    == ReadVarInt(b, ins.next)
        outs    == ReadTxOuts(b, nOut.next, nOut.val)
        wit     == IF marker THEN SkipWitnesses(b, outs.next, count.val)
                   ELSE [ok |-> TRUE, next |-> outs.next]
    IN IF ~count0.ok THEN WireFail("unexpected EOF")
       ELSE IF marker /\ ~flagOk THEN WireFail("unexpected EOF")
       ELSE IF marker /\ flag # 1 THEN WireFail("witness tx but flag byte is not 0x01")
       ELSE IF ~count.ok \/ ~ins.ok \/ ~nOut.ok \/ ~outs.ok \/ ~wit.ok
            THEN WireFail("unexpected EOF")
       ELSE IF wit.next + 3 > Len(b) THEN WireFail("unexpected EOF")
       ELSE [tx |-> [version |-> version, ins |-> ins.val, outs |-> outs.val,
                     lockTime |-> b[wit.next] + 256 * b[wit.next + 1]
                                  + 65536 * b[wit.next + 2]],
             err |-> NoErr]

\* bbn.NewBTCTxFromHex: hex decoding, then MsgTx.Deserialize
NewBTCTxFromHex(txHex) ==
    LET d == HexDecodeString(txHex)
    IN IF d.err # NoErr
       THEN [tx |-> WireFail("").tx, err |-> d.err]
       ELSE MsgTxDeserialize(d.bytes)

(***************************************************************************)
(* The staking-protocol library (babylon/btcstaking), by its contract: the *)
(* builder returns an unfunded version-2 transaction with the staking      *)
(* output and the OP_RETURN output, or fails; the parser accepts the       *)
(* transactions of that shape for the covenant set and quorum it is given. *)
(* The taproot output key commits to the staker, finality-provider and     *)
(* covenant keys, the quorum and the staking time; it is modelled by their *)
(* concatenation (a commitment without collisions).                        *)
(***************************************************************************)
StakingPkScript(stakerPk, fpPk, covenantPks, quorum, stakingTime) ==
    LET commitment == stakerPk \o fpPk \o Flatten(covenantPks)
                          \o <<quorum, stakingTime \div 256, stakingTime % 256>>
    IN <<81, Len(commitment)>> \o commitment

\* OP_RETURN, push of 71 bytes: magic bytes, version 0, staker key,
\* finality-provider key, staking time (big-endian)
OpReturnScript(magicBytes, stakerPk, fpPk, stakingTime) ==
    <<106, 71>> \o magicBytes \o <<0>> \o stakerPk \o fpPk
        \o <<stakingTime \div 256, stakingTime % 256>>

EmptyTx == [version |-> 0, ins |-> <<>>, outs |-> <<>>, lockTime |-> 0]

\* libRejects: the library refuses the request for a reason of its own (keys
\* it does not accept together, a quorum of zero)
BuildV0IdentifiableStakingOutputsAndTx(magicBytes, stakerPk, fpPk, covenantPks, covenantQuorum, stakingTime, stakingAmount, net, libRejects) ==
    IF covenantQuorum > Len(covenantPks)
    THEN [tx |-> EmptyTx,
          err |-> Err("required number of valid signers is greater than number of provided keys", "")]
    ELSE IF libRejects
    THEN [tx |-> EmptyTx, err |-> Err("invalid staking parameters", "")]
    ELSE [tx |-> [version |-> 2,
                  ins |-> <<>>,
                  outs |-> << TxOutBytes(stakingAmount,
                                  StakingPkScript(stakerPk, fpPk, covenantPks,
                                                  covenantQuorum, stakingTime)),
                              TxOutBytes(0, OpReturnScript(magicBytes, stakerPk,
                                                           fpPk, stakingTime)) >>,
                  lockTime |-> 0],
          err |-> NoErr]

TxOutScript(out) == SubSeq(out, 10, Len(out))

IsV0OpReturn(script) == Len(script) = 73 /\ script[1] = 106 /\ script[2] = 71 /\ script[7] = 0

ParseV0StakingTx(tx, expectedMagicBytes, covenantPks, covenantQuorum, net) ==
    LET scripts  == [i \in 1..Len(tx.outs) |-> TxOutScript(tx.outs[i])]
        opRets   == {i \in 1..Len(scripts) : IsV0OpReturn(scripts[i])}
        data     == scripts[CHOOSE i \in opRets : TRUE]
        magic    == SubSeq(data, 3, 6)
        stakerPk == SubSeq(data, 8, 39)
        fpPk     == SubSeq(data, 40, 71)
        time     == data[72] * 256 + data[73]
        expected == StakingPkScript(stakerPk, fpPk, covenantPks, covenantQuorum, time)
        staking  == {i \in 1..Len(scripts) : scripts[i] = expected}
    IN IF Len(covenantPks) = 0
       THEN Err("no covenant keys provided", "")
       ELSE IF covenantQuorum > Len(covenantPks)
       THEN Err("covenant quorum is greater than the number of covenant keys", "")
       ELSE IF Len(tx.outs) < 2
       THEN Err("staking tx must have at least 2 outputs", "")
       ELSE IF Cardinality(opRets) > 1
       THEN Err("transaction has multiple op_return outputs", "")
       ELSE IF opRets = {}
       THEN Err("transaction does not have expected op return output", "")
       ELSE IF Cardinality(staking) # 1
       THEN Err("staking output not found in potential staking transaction", "")
       ELSE IF magic # expectedMagicBytes
       THEN Err("unexpected magic bytes", "")
       ELSE NoErr

(***************************************************************************)
(* MakeCreatePhase1StakingTxResponse: the library's build, the             *)
(* serialization, the hex encoding.  calls is the record of the library    *)
(* calls made.                                                             *)
(***************************************************************************)
BuildCall(quorum, nKeys) == [fn |-> "BuildV0IdentifiableStakingOutputsAndTx",
                             quorum |-> quorum, nKeys |-> nKeys]
ParseCall(quorum, nKeys) == [fn |-> "ParseV0StakingTx",
                             quorum |-> quorum, nKeys |-> nKeys]

MakeCreatePhase1StakingTxResponse(magicBytes, stakerPk, fpPk, covenantPks, covenantQuorum, stakingTime, stakingAmount, net, libRejects) ==
    LET built == BuildV0IdentifiableStakingOutputsAndTx(
                     magicBytes, stakerPk, fpPk, covenantPks, covenantQuorum,
                     stakingTime, stakingAmount, net, libRejects)
    IN [resp  |-> IF built.err # NoErr THEN <<>>
                  ELSE HexEncodeToString(SerializeBtcTransaction(built.tx)),
        tx    |-> built.tx,
        err   |-> built.err,
        calls |-> <<BuildCall(covenantQuorum, Len(covenantPks))>>]

(***************************************************************************)
(* createPhase1StakingTransaction.  a is the command line: net, stakerPk,  *)
(* fpPk, amount, time, magic, covPks, quorum (and libRejects, the          *)
(* library's own verdict).  The result is the error returned, what was     *)
(* printed and the library calls made.                                     *)
(***************************************************************************)
CmdFail(err) == [tx |-> EmptyTx, err |-> err, out |-> <<>>, calls |-> <<>>]

\* the same command with the amount and time checks made first
createPhase1StakingTransactionValidateFirst(a) ==
    LET currentParams == GetBtcNetworkParams(a.net)
        stakerPk      == parseSchnorPubKeyFromHex(a.stakerPk)
        fpPk          == parseSchnorPubKeyFromHex(a.fpPk)
        stakingAmount == parseStakingAmountFromCliCtx(a.amount)
        stakingTime   == parseStakingTimeBlocksFromCliCtx(a.time)
        magicBytes    == parseMagicBytesFromHex(a.magic)
        covenantPks   == parseCovenantKeysFromSlice(a.covPks)
        covenantQuorum == ToUint32(a.quorum)
        made == MakeCreatePhase1StakingTxResponse(
                    magicBytes.val, stakerPk.val, fpPk.val, covenantPks.val,
                    covenantQuorum, stakingTime.val, stakingAmount.val,
                    currentParams.val, a.libRejects)
    IN IF currentParams.err # NoErr THEN CmdFail(currentParams.err)
       ELSE IF stakingAmount.err # NoErr THEN CmdFail(stakingAmount.err)
       ELSE IF stakingTime.err # NoErr THEN CmdFail(stakingTime.err)
       ELSE IF stakerPk.err # NoErr THEN CmdFail(stakerPk.err)
       ELSE IF fpPk.err # NoErr THEN CmdFail(fpPk.err)
       ELSE IF magicBytes.err # NoErr THEN CmdFail(magicBytes.err)
       ELSE IF covenantPks.err # NoErr THEN CmdFail(covenantPks.err)
       ELSE IF made.err # NoErr
            THEN [tx |-> EmptyTx, err |-> made.err, out |-> <<>>, calls |-> made.calls]
            ELSE [tx |-> made.tx, err |-> NoErr, out |-> <<made.resp>>,
                  calls |-> made.calls]

createPhase1StakingTransaction(a) ==
    LET currentParams == GetBtcNetworkParams(a.net)
        stakerPk      == parseSchnorPubKeyFromHex(a.stakerPk)
        fpPk          == parseSchnorPubKeyFromHex(a.fpPk)
        stakingAmount == parseStakingAmountFromCliCtx(a.amount)
        stakingTime   == parseStakingTimeBlocksFromCliCtx(a.time)
        magicBytes    == parseMagicBytesFromHex(a.magic)
        covenantPks   == parseCovenantKeysFromSlice(a.covPks)
        covenantQuorum == ToUint32(a.quorum)
        made == MakeCreatePhase1StakingTxResponse(
                    magicBytes.val, stakerPk.val, fpPk.val, covenantPks.val,
                    covenantQuorum, stakingTime.val, stakingAmount.val,
                    currentParams.val, a.libRejects)
    IN IF currentParams.err # NoErr THEN CmdFail(currentParams.err)
       ELSE IF stakerPk.err # NoErr THEN CmdFail(stakerPk.err)
       ELSE IF fpPk.err # NoErr THEN CmdFail(fpPk.err)
       ELSE IF stakingAmount.err # NoErr THEN CmdFail(stakingAmount.err)
       ELSE IF stakingTime.err # NoErr THEN CmdFail(stakingTime.err)
       ELSE IF magicBytes.err # NoErr THEN CmdFail(magicBytes.err)
       ELSE IF covenantPks.err # NoErr THEN CmdFail(covenantPks.err)
       ELSE IF made.err # NoErr
            THEN [tx |-> EmptyTx, err |-> made.err, out |-> <<>>, calls |-> made.calls]
            ELSE [tx |-> made.tx, err |-> NoErr, out |-> <<made.resp>>,
                  calls |-> made.calls]

(***************************************************************************)
(* checkPhase1StakingTransaction.  a is the command line: net, txHex,      *)
(* magic, covPks, quorum.                                                  *)
(***************************************************************************)
ValidMessage == <<"Provided transaction is valid staking transaction!">>

\* the same command handing the library the committee's size as the quorum
checkPhase1StakingTransactionQuorumAll(a) ==
    LET currentParams == GetBtcNetworkParams(a.net)
        decoded       == NewBTCTxFromHex(a.txHex)
        magicBytes    == parseMagicBytesFromHex(a.magic)
        covenantPks   == parseCovenantKeysFromSlice(a.covPks)
        covenantQuorum == Len(covenantPks.val)
        parseErr == ParseV0StakingTx(decoded.tx, magicBytes.val, covenantPks.val,
                                     covenantQuorum, currentParams.val)
        calls    == <<ParseCall(covenantQuorum, Len(covenantPks.val))>>
    IN IF currentParams.err # NoErr THEN CmdFail(currentParams.err)
       ELSE IF decoded.err # NoErr THEN CmdFail(decoded.err)
       ELSE IF magicBytes.err # NoErr THEN CmdFail(magicBytes.err)
       ELSE IF covenantPks.err # NoErr THEN CmdFail(covenantPks.err)
       ELSE IF parseErr # NoErr
            THEN [tx |-> EmptyTx, err |-> parseErr, out |-> <<>>, calls |-> calls]
            ELSE [tx |-> decoded.tx, err |-> NoErr, out |-> <<ValidMessage>>,
                  calls |-> calls]

checkPhase1StakingTransaction(a) ==
    LET currentParams == GetBtcNetworkParams(a.net)
        decoded       == NewBTCTxFromHex(a.txHex)
        magicBytes    == parseMagicBytesFromHex(a.magic)
        covenantPks   == parseCovenantKeysFromSlice(a.covPks)
        covenantQuorum == ToUint32(a.quorum)
        parseErr == ParseV0StakingTx(decoded.tx, magicBytes.val, covenantPks.val,
                                     covenantQuorum, currentParams.val)
        calls    == <<ParseCall(covenantQuorum, Len(covenantPks.val))>>
    IN IF currentParams.err # NoErr THEN CmdFail(currentParams.err)
       ELSE IF decoded.err # NoErr THEN CmdFail(decoded.err)
       ELSE IF magicBytes.err # NoErr THEN CmdFail(magicBytes.err)
       ELSE IF covenantPks.err # NoErr THEN CmdFail(covenantPks.err)
       ELSE IF parseErr # NoErr
            THEN [tx |-> EmptyTx, err |-> parseErr, out |-> <<>>, calls |-> calls]
            ELSE [tx |-> decoded.tx, err |-> NoErr, out |-> <<ValidMessage>>,
                  calls |-> calls]

(***************************************************************************)
(* InputBtcStakingTx and its conversion.  The structure mirrors the        *)
(* staking parameters; the conversion parses its fields with the parsers   *)
(* above and calls MakeCreatePhase1StakingTxResponse.                      *)
(***************************************************************************)
InputFields == {"network", "stakerKey", "finalityProviderKey", "covenantKeys",
                "covenantQuorum", "stakingTimeBlocks", "stakingAmount", "magicBytes"}

\* the structure as declared: every field at its zero value
ZeroInput ==
    [network |-> "", stakerKey |-> <<>>, finalityProviderKey |-> <<>>,
     covenantKeys |-> <<>>, covenantQuorum |-> 0, stakingAmount |-> 0,
     stakingTimeBlocks |-> 0, magicBytes |-> <<>>]

ToCreatePhase1StakingTxResponse(input, libRejects) ==
    LET magicBytes  == parseMagicBytesFromHex(input.magicBytes)
        stakerPk    == parseSchnorPubKeyFromHex(input.stakerKey)
        fpPk        == parseSchnorPubKeyFromHex(input.finalityProviderKey)
        covenantPks == parseCovenantKeysFromSlice(input.covenantKeys)
        net         == GetBtcNetworkParams(input.network)
        made == MakeCreatePhase1StakingTxResponse(
                    magicBytes.val, stakerPk.val, fpPk.val, covenantPks.val,
                    input.covenantQuorum, input.stakingTimeBlocks,
                    input.stakingAmount, net.val, libRejects)
    IN IF magicBytes.err # NoErr THEN [resp |-> <<>>, err |-> magicBytes.err]
       ELSE IF stakerPk.err # NoErr THEN [resp |-> <<>>, err |-> stakerPk.err]
       ELSE IF fpPk.err # NoErr THEN [resp |-> <<>>, err |-> fpPk.err]
       ELSE IF covenantPks.err # NoErr THEN [resp |-> <<>>, err |-> covenantPks.err]
       ELSE IF net.err # NoErr THEN [resp |-> <<>>, err |-> net.err]
       ELSE [resp |-> made.resp, err |-> made.err]

(***************************************************************************)
(* createPhase1StakingTransactionFromJson.  A file is [exists, readable,   *)
(* doc]; a document is [text, wellFormed, typed, present, vals]: its       *)
(* bytes, whether they are JSON, whether every member present has the JSON *)
(* type of its field, the members present and their values.                *)
(***************************************************************************)
\* json.Unmarshal into the zero-valued structure: a member of the document
\* sets its field, a field without a member keeps its zero value, and only a
\* syntax error or a member of the wrong type is an error
JsonUnmarshal(doc, into) ==
    IF ~doc.wellFormed
    THEN [val |-> into, err |-> Err("invalid character", "")]
    ELSE IF ~doc.typed
    THEN [val |-> into, err |-> Err("json: cannot unmarshal", "")]
    ELSE [val |-> [f \in DOMAIN into |->
                      IF f \in doc.present THEN doc.vals[f] ELSE into[f]],
          err |-> NoErr]

JsonFail(err) == [err |-> err, out |-> <<>>]

\* the same command naming the file in the error of the conversion
createPhase1StakingTransactionFromJsonWrapsPath(inputFilePath, file, libRejects) ==
    LET decoded == JsonUnmarshal(file.doc, ZeroInput)
        made    == ToCreatePhase1StakingTxResponse(decoded.val, libRejects)
    IN IF inputFilePath = ""
       THEN JsonFail(Err("json file input is empty", ""))
       ELSE IF ~file.exists
       THEN JsonFail(Err("json file input does not exist", inputFilePath))
       ELSE IF ~file.readable
       THEN JsonFail(Err("error reading file", inputFilePath))
       ELSE IF decoded.err # NoErr
       THEN JsonFail(Err("error parsing file content to struct", file.doc.text))
       ELSE IF made.err # NoErr
       THEN JsonFail(Err(made.err.msg, inputFilePath))
       ELSE [err |-> NoErr, out |-> <<made.resp>>]

createPhase1StakingTransactionFromJson(inputFilePath, file, libRejects) ==
    LET decoded == JsonUnmarshal(file.doc, ZeroInput)
        made    == ToCreatePhase1StakingTxResponse(decoded.val, libRejects)
    IN IF inputFilePath = ""
       THEN JsonFail(Err("json file input is empty", ""))
       ELSE IF ~file.exists
       THEN JsonFail(Err("json file input does not exist", inputFilePath))
       ELSE IF ~file.readable
       THEN JsonFail(Err("error reading file", inputFilePath))
       ELSE IF decoded.err # NoErr
       THEN JsonFail(Err("error parsing file content to struct", file.doc.text))
       ELSE IF made.err # NoErr
       THEN JsonFail(made.err)
       ELSE [err |-> NoErr, out |-> <<made.resp>>]

(***************************************************************************)
(* StakerServiceJsonRpcClient.  An optional argument (a pointer) is the    *)
(* empty set (nil) or a singleton.  The transport's outcome of a call is   *)
(* [err, fill]: the error of client.Call ("" for nil) and how far it       *)
(* filled the result object before returning ("none", "partial", "full").  *)
(* An operation yields the request it sends and what it returns.           *)
(***************************************************************************)
NilResult == [type |-> "nil", fill |-> "none"]
NoParams == [k \in {} |-> 0]

Request(method, params) == [method |-> method, params |-> params]

\* result := new(T); _, err := c.client.Call(...); nil on error
Returned(type, outcome) ==
    IF outcome.err # ""
    THEN [result |-> NilResult, err |-> outcome.err]
    ELSE [result |-> [type |-> type, fill |-> outcome.fill], err |-> ""]

Health(outcome) ==
    [request |-> Request("health", NoParams),
     ret |-> IF outcome.err # ""
             THEN [result |-> NilResult, err |-> outcome.err]
             ELSE [result |-> [type |-> "ResultHealth", fill |-> outcome.fill],
                   err |-> ""]]

ListOutputs(outcome) ==
    [request |-> Request("list_outputs", NoParams),
     ret |-> IF outcome.err # ""
             THEN [result |-> NilResult, err |-> outcome.err]
             ELSE [result |-> [type |-> "OutputsResponse", fill |-> outcome.fill],
                   err |-> ""]]

\* the same operation storing both arguments, nil or not
BabylonValidatorsSendsNil(offset, limit, outcome) ==
    LET value(opt) == IF opt = {} THEN "null" ELSE CHOOSE v \in opt : TRUE
        params == ("limit" :> value(limit)) @@ ("offset" :> value(offset))
    IN [request |-> Request("babylon_validators", params),
        ret |-> Returned("ValidatorsResponse", outcome)]

BabylonValidators(offset, limit, outcome) ==
    LET withLimit == IF limit # {}
                     THEN ("limit" :> (CHOOSE v \in limit : TRUE)) @@ NoParams
                     ELSE NoParams
        params    == IF offset # {}
                     THEN ("offset" :> (CHOOSE v \in offset : TRUE)) @@ withLimit
                     ELSE withLimit
    IN [request |-> Request("babylon_validators", params),
        ret |-> IF outcome.err # ""
                THEN [result |-> NilResult, err |-> outcome.err]
                ELSE [result |-> [type |-> "ValidatorsResponse", fill |-> outcome.fill],
                      err |-> ""]]

\* the same operation returning the result object along with the error
StakeKeepsResult(stakerAddress, stakingAmount, validatorPk, stakingTimeBlocks, outcome) ==
    [request |-> Request("stake",
                    [stakerAddress |-> stakerAddress, stakingAmount |-> stakingAmount,
                     validatorPk |-> validatorPk, stakingTimeBlocks |-> stakingTimeBlocks]),
     ret |-> [result |-> [type |-> "ResultStake", fill |-> outcome.fill],
              err |-> outcome.err]]

Stake(stakerAddress, stakingAmount, validatorPk, stakingTimeBlocks, outcome) ==
    [request |-> Request("stake",
                    [stakerAddress |-> stakerAddress, stakingAmount |-> stakingAmount,
                     validatorPk |-> validatorPk, stakingTimeBlocks |-> stakingTimeBlocks]),
     ret |-> IF outcome.err # ""
             THEN [result |-> NilResult, err |-> outcome.err]
             ELSE [result |-> [type |-> "ResultStake", fill |-> outcome.fill],
                   err |-> ""]]

ListStakingTransactions(offset, limit, outcome) ==
    LET withLimit == IF limit # {}
                     THEN ("limit" :> (CHOOSE v \in limit : TRUE)) @@ NoParams
                     ELSE NoParams
        params    == IF offset # {}
                     THEN ("offset" :> (CHOOSE v \in offset : TRUE)) @@ withLimit
                     ELSE withLimit
    IN [request |-> Request("list_staking_transactions", params),
        ret |-> IF outcome.err # ""
                THEN [result |-> NilResult, err |-> outcome.err]
                ELSE [result |-> [type |-> "ListStakingTransactionsResponse",
                                  fill |-> outcome.fill],
                      err |-> ""]]

(***************************************************************************)
(* Specification of the staking-time parser: the flag value is drawn from  *)
(* the neighbourhoods of 0, of 65535 and of the ends of the range.         *)
(***************************************************************************)
\* a large magnitude standing for the far ends of the int64 range
FarTime == 2000000000

TimeInputs ==
    ((-TimeSpread)..TimeSpread)
    \cup ((MaxUint16 - TimeSpread)..(MaxUint16 + TimeSpread))
    \cup ((2 * 65536 - TimeSpread)..(2 * 65536 + TimeSpread))
    \cup {-FarTime, FarTime, FarTime + MaxUint16}

MagicIdle == magicIn = <<>> /\ magicOut = Pending
TimeIdle == timeIn = 0 /\ timeOut = Pending
NoRun == [none |-> TRUE]
CliIdle == createRun = NoRun /\ checkRun = NoRun
cliVars == <<createRun, checkRun>>
JsonIdle == jsonRun = NoRun
Callers == 1..MaxCallers
NoReturn == [result |-> [type |-> "nil", fill |-> "none"], err |-> ""]
IdleCall == [st |-> "idle", op |-> "", outcome |-> [err |-> "", fill |-> "none"],
             ret |-> NoReturn, ctxDone |-> FALSE, peers |-> {}, made |-> 0,
             abortedBefore |-> FALSE]
RpcIdle == rpcCall = NoRun /\ client = "connected" /\ rpcCalls = [c \in Callers |-> IdleCall]
rpcVars == <<rpcCall, client, rpcCalls>>

InitTime ==
    /\ timeIn \in TimeInputs
    /\ timeOut = Pending
    /\ MagicIdle
    /\ CliIdle
    /\ JsonIdle
    /\ RpcIdle

ParseStakingTime ==
    /\ timeOut = Pending
    /\ timeOut' = parseStakingTimeBlocksFromCliCtx(timeIn)
    /\ UNCHANGED <<timeIn, magicIn, magicOut, cliVars, jsonRun, rpcVars>>

NextTime == ParseStakingTime

SpecTime == InitTime /\ [][NextTime]_vars

(***************************************************************************)
(* Specification of the magic-bytes parser: every string of up to          *)
(* MaxHexLen characters over two hex digits and one character that is none.*)
(***************************************************************************)
MagicChars == {"0", "a", "g"}

MagicInputs == UNION {[1..k -> MagicChars] : k \in 0..MaxHexLen}

InitMagic ==
    /\ magicIn \in MagicInputs
    /\ magicOut = Pending
    /\ TimeIdle
    /\ CliIdle
    /\ JsonIdle
    /\ RpcIdle

ParseMagicBytes ==
    /\ magicOut = Pending
    /\ magicOut' = parseMagicBytesFromHex(magicIn)
    /\ UNCHANGED <<magicIn, timeIn, timeOut, cliVars, jsonRun, rpcVars>>

NextMagic == ParseMagicBytes

SpecMagic == InitMagic /\ [][NextMagic]_vars

(***************************************************************************)
(* Command lines of the model.                                             *)
(***************************************************************************)
\* 64 hex digits: a 32-byte x-only key
KeyHex(d) == RepeatSeq(d, 64)

StakerKeySamples ==
    { KeyHex("1"),            \* a key
      KeyHex("0"),            \* 32 bytes, x = 0: not on the curve
      <<"g", "1">> }          \* not hex
FpKeySamples ==
    { KeyHex("2"),            \* a key
      RepeatSeq("2", 66),     \* 33 bytes: the length of a compressed key
      <<"2">> }               \* odd length

CovDigits == <<"3", "4", "5", "6", "7", "8", "9">>
\* k covenant keys
CovKeys(k) == [i \in 1..k |-> KeyHex(CovDigits[i])]
\* k covenant keys of which the last does not parse
CovKeysLastBad(k) == [i \in 1..k |-> IF i = k THEN <<"z", "z">> ELSE KeyHex(CovDigits[i])]
CovSamples == {CovKeys(k) : k \in 0..MaxCovKeys} \cup {CovKeysLastBad(k) : k \in 1..MaxCovKeys}

\* the quorum flag: small values, and the same values plus 2^32
QuorumSamples == {U64(hi, lo) : hi \in {0, 1}, lo \in 0..(MaxCovKeys + 1)}

MagicSamples ==
    { <<"0", "1", "0", "2", "0", "3", "0", "4">>,    \* 4 bytes
      <<"0", "1", "0", "2", "0", "3">>,              \* 3 bytes
      <<"0", "1", "0", "2", "0", "3", "0", "g">> }   \* not hex
OtherMagic == <<"6", "2", "6", "2", "6", "e", "7", "4">>

NetSamples == {"regtest", "foonet"}
AmountSamples == {-1, 0, 10000}
TimeSamples == {0, 1, 65535, 65536}

CreateArgs ==
    [net : NetSamples, stakerPk : StakerKeySamples, fpPk : FpKeySamples,
     amount : AmountSamples, time : TimeSamples, magic : MagicSamples,
     covPks : CovSamples, quorum : QuorumSamples, libRejects : BOOLEAN]

\* a wallet funds a transaction: it adds n inputs and leaves the outputs alone
FundTx(tx, n) == [tx EXCEPT !.ins = [i \in 1..n |-> TxInBytes(170 + i, i - 1)]]
TxHex(tx) == HexEncodeToString(SerializeBtcTransaction(tx))

\* the transaction the library builds for the reference parameters (the
\* first magic sample, 3 covenant keys, quorum 2), unfunded and funded
SampleTx ==
    BuildV0IdentifiableStakingOutputsAndTx(
        <<1, 2, 3, 4>>, RepeatSeq(17, 32), RepeatSeq(34, 32),
        [i \in 1..MaxCovKeys |-> parseSchnorPubKeyFromHex(KeyHex(CovDigits[i])).val],
        2, 100, 10000, "regtest", FALSE).tx

TxHexSamples ==
    { TxHex(SampleTx),             \* as the builder serializes it
      TxHex(FundTx(SampleTx, 1)),  \* with an input
      <<"z", "z">>,                \* not hex
      <<"0", "2", "0", "0">> }     \* two bytes

CheckArgs ==
    [net : NetSamples, txHex : TxHexSamples, magic : MagicSamples,
     covPks : CovSamples, quorum : QuorumSamples]

(***************************************************************************)
(* Specification of the two commands: one invocation of either, on any     *)
(* command line of the model.                                              *)
(***************************************************************************)
InitCli ==
    /\ CliIdle
    /\ TimeIdle
    /\ MagicIdle
    /\ JsonIdle
    /\ RpcIdle

CreateCmd ==
    /\ CliIdle
    /\ \E a \in CreateArgs :
          createRun' = [args |-> a] @@ createPhase1StakingTransaction(a)
    /\ UNCHANGED <<checkRun, timeIn, timeOut, magicIn, magicOut, jsonRun, rpcVars>>

CheckCmd ==
    /\ CliIdle
    /\ \E a \in CheckArgs :
          checkRun' = [args |-> a] @@ checkPhase1StakingTransaction(a)
    /\ UNCHANGED <<createRun, timeIn, timeOut, magicIn, magicOut, jsonRun, rpcVars>>

NextCli == CreateCmd \/ CheckCmd

SpecCli == InitCli /\ [][NextCli]_vars

(***************************************************************************)
(* Specification of the round trip: create on a command line whose keys,   *)
(* amount, time and magic bytes are valid, then check on what create       *)
(* printed, as printed or funded, with the same or other parameters.       *)
(***************************************************************************)
RoundTripCreateArgs ==
    [net : {"regtest", "mainnet"}, stakerPk : {KeyHex("1")},
     fpPk : {KeyHex("2"), KeyHex("1")}, amount : {1, 10000}, time : {1, 100, 65535},
     magic : {<<"0", "1", "0", "2", "0", "3", "0", "4">>, OtherMagic},
     covPks : {CovKeys(k) : k \in 1..MaxCovKeys},
     quorum : {U64(0, lo) : lo \in 1..(MaxCovKeys + 1)}, libRejects : BOOLEAN]

FundedHex(run, n) == TxHex(FundTx(run.tx, n))

RoundTripCheckArgs(run) ==
    [net : {run.args.net, "signet"},
     txHex : {run.out[1], FundedHex(run, 1), FundedHex(run, 2)},
     magic : {run.args.magic, OtherMagic},
     covPks : {run.args.covPks, CovKeys(1)},
     quorum : {run.args.quorum, U64(0, 1)}]

RoundTripCreate ==
    /\ CliIdle
    /\ \E a \in RoundTripCreateArgs :
          createRun' = [args |-> a] @@ createPhase1StakingTransaction(a)
    /\ UNCHANGED <<checkRun, timeIn, timeOut, magicIn, magicOut, jsonRun, rpcVars>>

RoundTripCheck ==
    /\ createRun # NoRun
    /\ createRun.err = NoErr
    /\ checkRun = NoRun
    /\ \E a \in RoundTripCheckArgs(createRun) :
          checkRun' = [args |-> a] @@ checkPhase1StakingTransaction(a)
    /\ UNCHANGED <<createRun, timeIn, timeOut, magicIn, magicOut, jsonRun, rpcVars>>

NextRoundTrip == RoundTripCreate \/ RoundTripCheck

SpecRoundTrip == InitCli /\ [][NextRoundTrip]_vars

(***************************************************************************)
(* Classes of errors, by message.                                          *)
(***************************************************************************)
ParseErrorMessages ==
    { "encoding/hex: invalid byte", "encoding/hex: odd length hex string",
      "malformed public key: invalid length",
      "invalid public key: x coordinate is not on the curve",
      "magic bytes should be of length",
      "unexpected EOF", "witness tx but flag byte is not 0x01" }
ValidationErrorMessages ==
    { "staking amount should be greater than 0",
      "staking time blocks should be greater than 0",
      "staking time blocks should be less or equal to",
      "unknown network" }
IsParseError(e) == e.msg \in ParseErrorMessages
IsValidationError(e) == e.msg \in ValidationErrorMessages

NetOk(a) == a.net \in {"mainnet", "testnet3", "regtest", "simnet", "signet"}
KeyOk(pkHex) == parseSchnorPubKeyFromHex(pkHex).err = NoErr
MagicOk(a) == parseMagicBytesFromHex(a.magic).err = NoErr
CovOk(a) == \A i \in 1..Len(a.covPks) : KeyOk(a.covPks[i])
TxHexOk(a) == NewBTCTxFromHex(a.txHex).err = NoErr
CreateHasParseError(a) == ~KeyOk(a.stakerPk) \/ ~KeyOk(a.fpPk) \/ ~MagicOk(a) \/ ~CovOk(a)
CheckHasParseError(a) == ~TxHexOk(a) \/ ~MagicOk(a) \/ ~CovOk(a)

SameParameters ==
    /\ checkRun.args.magic = createRun.args.magic
    /\ checkRun.args.covPks = createRun.args.covPks
    /\ checkRun.args.quorum = createRun.args.quorum
    /\ checkRun.args.net = createRun.args.net

(***************************************************************************)
(* C1 as stated: whenever create succeeds, check accepts the hex string    *)
(* create printed, given the same magic bytes, covenant keys, quorum and   *)
(* network.                                                                *)
(***************************************************************************)
C1_UnfundedRoundTrip ==
    (/\ createRun # NoRun /\ createRun.err = NoErr
     /\ checkRun # NoRun /\ SameParameters
     /\ checkRun.args.txHex = createRun.out[1])
        => checkRun.err = NoErr

(***************************************************************************)
(* C1 as amended: whenever create succeeds, check (same magic bytes,       *)
(* covenant keys, quorum, network) accepts the transaction create built    *)
(* once it has been given at least one input, and rejects the hex string   *)
(* as printed, which has no inputs, when it decodes it.                    *)
(***************************************************************************)
C1_FundedRoundTrip ==
    (/\ createRun # NoRun /\ createRun.err = NoErr
     /\ checkRun # NoRun /\ SameParameters)
        => /\ checkRun.args.txHex \in {FundedHex(createRun, 1), FundedHex(createRun, 2)}
                => /\ checkRun.err = NoErr
                   /\ checkRun.out = <<ValidMessage>>
           /\ checkRun.args.txHex = createRun.out[1]
                => /\ checkRun.err.msg = "witness tx but flag byte is not 0x01"
                   /\ checkRun.calls = <<>>

\* check has accepted the funded transaction of a create with 3 covenant keys
\* and quorum 2
C1_Witness ==
    /\ createRun # NoRun /\ createRun.err = NoErr
    /\ checkRun # NoRun /\ SameParameters
    /\ Len(createRun.args.covPks) = 3
    /\ createRun.args.quorum = U64(0, 2)
    /\ checkRun.args.txHex = FundedHex(createRun, 1)
    /\ checkRun.err = NoErr

(***************************************************************************)
(* C2: a covenant quorum above the number of covenant keys makes create    *)
(* and check fail, and the quorum the library is called with is the        *)
(* quorum of the command line.                                             *)
(***************************************************************************)
QuorumAboveKeysFails(run) ==
    (run # NoRun /\ U64GreaterThan(run.args.quorum, Len(run.args.covPks)))
        => /\ run.err # NoErr
           /\ \A i \in 1..Len(run.calls) :
                  run.args.quorum = U64(0, run.calls[i].quorum)

C2_QuorumAboveKeysFails ==
    QuorumAboveKeysFails(createRun) /\ QuorumAboveKeysFails(checkRun)

(***************************************************************************)
(* C4: create with a staking amount <= 0 never calls the library and       *)
(* prints nothing; when the network and the two keys before it on the      *)
(* command line are valid, the error is "staking amount should be greater  *)
(* than 0".                                                                *)
(***************************************************************************)
C4_NonPositiveAmount ==
    (createRun # NoRun /\ createRun.args.amount <= 0)
        => /\ createRun.calls = <<>>
           /\ createRun.out = <<>>
           /\ createRun.err # NoErr
           /\ (NetOk(createRun.args) /\ KeyOk(createRun.args.stakerPk)
                   /\ KeyOk(createRun.args.fpPk))
                => createRun.err = Err("staking amount should be greater than 0", "")

\* create has run with amount 0 and every other parameter valid
C4_Witness ==
    /\ createRun # NoRun
    /\ createRun.args.amount = 0
    /\ NetOk(createRun.args) /\ ~CreateHasParseError(createRun.args)
    /\ createRun.args.time = 1
    /\ createRun.args.quorum = U64(0, 2) /\ Len(createRun.args.covPks) = 3
    /\ ~createRun.args.libRejects
    /\ createRun.err.msg = "staking amount should be greater than 0"

(***************************************************************************)
(* C5 as stated: when the command line holds a parse error, the error      *)
(* returned by create or check is a parse error.                           *)
(***************************************************************************)
C5_ParseErrorFirst ==
    /\ (createRun # NoRun /\ CreateHasParseError(createRun.args))
          => IsParseError(createRun.err)
    /\ (checkRun # NoRun /\ CheckHasParseError(checkRun.args))
          => IsParseError(checkRun.err)

(***************************************************************************)
(* C5 as amended: the error returned is that of the first failing step in  *)
(* the order network, staker key, finality-provider key, amount, time,     *)
(* magic bytes, covenant keys (create) and network, transaction hex, magic *)
(* bytes, covenant keys (check).  An unknown network is reported before    *)
(* any parse error, a non-positive amount or an out-of-range time before a *)
(* parse error of the magic bytes or covenant keys; a parse error is       *)
(* reported before the validation errors of the later steps.               *)
(***************************************************************************)
C5_FirstFailingStep ==
    /\ createRun # NoRun =>
         LET a == createRun.args
             e == createRun.err
         IN /\ ~NetOk(a) => e = Err("unknown network", a.net)
            /\ (NetOk(a) /\ (~KeyOk(a.stakerPk) \/ ~KeyOk(a.fpPk))) => IsParseError(e)
            /\ (NetOk(a) /\ KeyOk(a.stakerPk) /\ KeyOk(a.fpPk) /\ a.amount <= 0)
                  => e.msg = "staking amount should be greater than 0"
            /\ (NetOk(a) /\ KeyOk(a.stakerPk) /\ KeyOk(a.fpPk) /\ a.amount > 0
                    /\ (a.time <= 0 \/ a.time > 65535))
                  => /\ IsValidationError(e)
                     /\ e.msg # "staking amount should be greater than 0"
                     /\ e.msg # "unknown network"
            /\ (NetOk(a) /\ a.amount > 0 /\ a.time >= 1 /\ a.time <= 65535
                    /\ CreateHasParseError(a))
                  => IsParseError(e)
    /\ checkRun # NoRun =>
         LET a == checkRun.args
             e == checkRun.err
         IN /\ ~NetOk(a) => e = Err("unknown network", a.net)
            /\ (NetOk(a) /\ CheckHasParseError(a)) => IsParseError(e)

\* create has reported the unknown network of a command line whose staker
\* key does not parse
C5_Witness ==
    /\ createRun # NoRun
    /\ ~NetOk(createRun.args)
    /\ ~KeyOk(createRun.args.stakerPk)
    /\ createRun.err.msg = "unknown network"

(***************************************************************************)
(* C3: parseStakingTimeBlocksFromCliCtx fails with the "greater than 0"    *)
(* message for t <= 0, fails with a different message naming 65535 for     *)
(* t > 65535, and otherwise succeeds with a 16-bit value equal to t.       *)
(***************************************************************************)
C3_StakingTimeValidation ==
    timeOut # Pending =>
        /\ timeIn <= 0 =>
              /\ timeOut.err.msg = "staking time blocks should be greater than 0"
        /\ timeIn > 65535 =>
              /\ timeOut.err.msg = "staking time blocks should be less or equal to"
              /\ timeOut.err.arg = "65535"
              /\ timeOut.err.msg # "staking time blocks should be greater than 0"
        /\ (timeIn >= 1 /\ timeIn <= 65535) =>
              /\ timeOut.err = NoErr
              /\ timeOut.val = timeIn
              /\ timeOut.val \in 0..65535
        /\ timeOut.err # NoErr => timeOut.val = 0

\* the parser has run on a value just above the 16-bit range
C3_Witness ==
    /\ timeOut # Pending
    /\ timeIn = 65536
    /\ timeOut.err # NoErr

(***************************************************************************)
(* C8: a hex string that decodes to a byte sequence of another length than *)
(* MagicBytesLen is rejected with the error naming that length; one that   *)
(* decodes to exactly that length is accepted and the bytes returned are   *)
(* the decoded ones (encoding them again gives the input back).            *)
(***************************************************************************)
IsHexText(s) == Len(s) % 2 = 0 /\ \A i \in 1..Len(s) : s[i] \in {"0", "a"}

C8_MagicBytesLength ==
    magicOut # Pending =>
        /\ (IsHexText(magicIn) /\ Len(magicIn) # 2 * 4) =>
              magicOut.err = Err("magic bytes should be of length", "4")
        /\ (IsHexText(magicIn) /\ Len(magicIn) = 2 * 4) =>
              /\ magicOut.err = NoErr
              /\ Len(magicOut.val) = 4
              /\ HexEncodeToString(magicOut.val) = magicIn
        /\ ~IsHexText(magicIn) =>
              /\ magicOut.err # NoErr
              /\ magicOut.err.msg # "magic bytes should be of length"

\* the parser has rejected a well-formed string that is one byte too long
C8_Witness ==
    /\ magicOut # Pending
    /\ IsHexText(magicIn)
    /\ Len(magicIn) = 10
    /\ magicOut.err.msg = "magic bytes should be of length"

(***************************************************************************)
(* Specification of the JSON command: one invocation, on a path and a file *)
(* of the model.  The document's members, when present, hold the reference *)
(* parameters (3 covenant keys, quorum 2).                                 *)
(***************************************************************************)
ReferenceInput ==
    [network |-> "regtest", stakerKey |-> KeyHex("1"),
     finalityProviderKey |-> KeyHex("2"), covenantKeys |-> CovKeys(3),
     covenantQuorum |-> 2, stakingAmount |-> 10000, stakingTimeBlocks |-> 100,
     magicBytes |-> <<"0", "1", "0", "2", "0", "3", "0", "4">>]

PathSamples == {"", "/tmp/inputBtcStakingTx.json"}

DocSamples ==
    [text : {"<the bytes of the file>"}, wellFormed : BOOLEAN, typed : BOOLEAN,
     present : SUBSET InputFields, vals : {ReferenceInput}]

FileSamples == [exists : BOOLEAN, readable : BOOLEAN, doc : DocSamples]

InitJson == InitCli

JsonCmd ==
    /\ jsonRun = NoRun
    /\ \E path \in PathSamples, file \in FileSamples, libRejects \in BOOLEAN :
          jsonRun' = [path |-> path, file |-> file, libRejects |-> libRejects]
                        @@ createPhase1StakingTransactionFromJson(path, file, libRejects)
    /\ UNCHANGED <<timeIn, timeOut, magicIn, magicOut, cliVars, rpcVars>>

NextJson == JsonCmd

SpecJson == InitJson /\ [][NextJson]_vars

\* the file exists, can be read and holds a JSON document, well typed, in
\* which a field of the structure has no member
ReadableMissingField(run) ==
    /\ run.path # ""
    /\ run.file.exists /\ run.file.readable
    /\ run.file.doc.wellFormed /\ run.file.doc.typed
    /\ run.file.doc.present # InputFields

IoOrDecodeMessages ==
    {"json file input does not exist", "error reading file",
     "error parsing file content to struct"}

(***************************************************************************)
(* C10 as stated: for an existing, readable JSON file in which a required  *)
(* field is missing, the JSON command fails with an I/O or decode failure  *)
(* whose message names the file path, and prints nothing.                  *)
(***************************************************************************)
C10_MissingFieldNamesPath ==
    (jsonRun # NoRun /\ ReadableMissingField(jsonRun))
        => /\ jsonRun.err.msg \in IoOrDecodeMessages
           /\ jsonRun.err.arg = jsonRun.path
           /\ jsonRun.out = <<>>

(***************************************************************************)
(* C10 as amended: for an existing, readable JSON file in which a field is *)
(* missing, decoding succeeds with the field at its zero value; the        *)
(* command returns what the conversion of that structure returns: no I/O   *)
(* or decode failure, an error that does not name the file path, and a     *)
(* response printed exactly when there is no error.  The errors that name  *)
(* the file path are those of a file that does not exist or cannot be      *)
(* read.                                                                   *)
(***************************************************************************)
C10_MissingFieldIsZeroValue ==
    (jsonRun # NoRun /\ jsonRun.path # "")
        => /\ ReadableMissingField(jsonRun)
                => /\ jsonRun.err.msg \notin IoOrDecodeMessages
                   /\ jsonRun.err.arg # jsonRun.path
                   /\ (jsonRun.err = NoErr) = (Len(jsonRun.out) = 1)
           /\ (jsonRun.err.arg = jsonRun.path)
                 = (~jsonRun.file.exists \/ ~jsonRun.file.readable)

\* the command has run on a readable file that lacks the staker key, and has
\* returned the key parser's error
C10_Witness ==
    /\ jsonRun # NoRun /\ ReadableMissingField(jsonRun)
    /\ jsonRun.file.doc.present = InputFields \ {"stakerKey"}
    /\ jsonRun.err # NoErr
    /\ jsonRun.out = <<>>
    /\ jsonRun.err.msg = "malformed public key: invalid length"
    /\ jsonRun.out = <<>>

(***************************************************************************)
(* Specification of the RPC client, one call at a time: any of the five    *)
(* operations, on any arguments of the model, with any outcome of the      *)
(* transport.                                                              *)
(***************************************************************************)
\* a success fills the result; a failure may have filled part of it
Outcomes ==
    {[err |-> "", fill |-> "full"]}
    \cup [err : {"connection refused", "context canceled"}, fill : {"none", "partial"}]

OptionalInts == {{}} \cup {{v} : v \in 0..MaxPage}

InitRpc == InitCli

Called(op, args, outcome, r) ==
    /\ rpcCall' = [op |-> op, args |-> args, outcome |-> outcome,
                   request |-> r.request, ret |-> r.ret]
    /\ UNCHANGED <<client, rpcCalls, timeIn, timeOut, magicIn, magicOut, cliVars, jsonRun>>

NoArgs == [offset |-> {}, limit |-> {}]

CallHealth ==
    \E o \in Outcomes : Called("Health", NoArgs, o, Health(o))

CallListOutputs ==
    \E o \in Outcomes : Called("ListOutputs", NoArgs, o, ListOutputs(o))

CallBabylonValidators ==
    \E o \in Outcomes, offset \in OptionalInts, limit \in OptionalInts :
        Called("BabylonValidators", [offset |-> offset, limit |-> limit], o,
               BabylonValidators(offset, limit, o))

CallStake ==
    \E o \in Outcomes, amount \in {-1, 0, 10000}, time \in {0, 100} :
        Called("Stake", NoArgs, o, Stake("bcrt1staker", amount, "fpkey", time, o))

CallListStakingTransactions ==
    \E o \in Outcomes, offset \in OptionalInts, limit \in OptionalInts :
        Called("ListStakingTransactions", [offset |-> offset, limit |-> limit], o,
               ListStakingTransactions(offset, limit, o))

NextRpc ==
    \/ CallHealth
    \/ CallListOutputs
    \/ CallBabylonValidators
    \/ CallStake
    \/ CallListStakingTransactions

SpecRpc == InitRpc /\ [][NextRpc]_vars

ResultTypeOf(op) ==
    CASE op = "Health" -> "ResultHealth"
      [] op = "ListOutputs" -> "OutputsResponse"
      [] op = "BabylonValidators" -> "ValidatorsResponse"
      [] op = "Stake" -> "ResultStake"
      [] op = "ListStakingTransactions" -> "ListStakingTransactionsResponse"

(***************************************************************************)
(* C6: the parameter object of BabylonValidators and of                    *)
(* ListStakingTransactions holds exactly the arguments supplied: "offset"  *)
(* when offset is given, "limit" when limit is given, each with the        *)
(* caller's value, and no other member.                                    *)
(***************************************************************************)
C6_PaginationParams ==
    (rpcCall # NoRun /\ rpcCall.op \in {"BabylonValidators", "ListStakingTransactions"})
        => LET params == rpcCall.request.params
               a      == rpcCall.args
           IN /\ DOMAIN params = {k \in {"offset"} : a.offset # {}}
                                    \cup {k \in {"limit"} : a.limit # {}}
              /\ a.offset # {} => params["offset"] \in a.offset
              /\ a.limit # {} => params["limit"] \in a.limit

\* BabylonValidators has been called with a limit and no offset
C6_Witness ==
    /\ rpcCall # NoRun
    /\ rpcCall.op = "BabylonValidators"
    /\ rpcCall.args.offset = {} /\ rpcCall.args.limit = {2}
    /\ DOMAIN rpcCall.request.params = {"limit"}

(***************************************************************************)
(* C7: each operation returns a result and no error, or no result and an   *)
(* error; when the underlying call fails the result is nil, also when the  *)
(* transport filled part of the result object, and the error is the        *)
(* underlying call's.                                                      *)
(***************************************************************************)
C7_ResultOrError ==
    rpcCall # NoRun =>
        LET r == rpcCall.ret
            o == rpcCall.outcome
        IN /\ (r.result = NilResult) # (r.err = "")
           /\ o.err # "" => (r.result = NilResult /\ r.err = o.err)
           /\ o.err = "" => r.result = [type |-> ResultTypeOf(rpcCall.op), fill |-> "full"]

\* Stake has failed after the transport filled part of the result object
C7_Witness ==
    /\ rpcCall # NoRun
    /\ rpcCall.op = "Stake"
    /\ rpcCall.outcome = [err |-> "connection refused", fill |-> "partial"]
    /\ rpcCall.ret.result = NilResult

(***************************************************************************)
(* Specification of the RPC client used by several callers at once.  Each  *)
(* caller has a context of its own; a call is in flight from the moment    *)
(* the operation hands its request and a context to client.Call until      *)
(* client.Call returns: with the server's answer, or early because the     *)
(* context it was handed is done.                                          *)
(***************************************************************************)
\* the context the operation hands to client.Call for caller c's call, named
\* by the caller it belongs to: a context kept by the client, the first
\* caller's
CallContextOfClient(c) == 1

\* ... : the ctx argument of the call, the caller's own
CallContext(c) == c

ConcurrentOps == {"Health", "ListStakingTransactions"}
ServerOutcomes == {[err |-> "", fill |-> "full"], [err |-> "connection refused", fill |-> "none"]}
Canceled == [err |-> "context canceled", fill |-> "partial"]

RECURSIVE CallsMade(_, _)
CallsMade(calls, c) == IF c = 0 THEN 0 ELSE calls[c].made + CallsMade(calls, c - 1)

OpReturn(op, outcome) ==
    IF op = "Health" THEN Health(outcome).ret
    ELSE ListStakingTransactions({}, {}, outcome).ret

InitConcurrent == InitCli

concFrame == <<rpcCall, client, timeIn, timeOut, magicIn, magicOut, cliVars, jsonRun>>

\* caller c starts a call; the answer the server will give is outcome
StartCall(c) ==
    /\ rpcCalls[c].st \in {"idle", "returned"}
    /\ CallsMade(rpcCalls, MaxCallers) < MaxCalls
    /\ client = "connected"
    /\ \E op \in ConcurrentOps, outcome \in ServerOutcomes :
          rpcCalls' = [rpcCalls EXCEPT ![c] =
                          [st |-> "inflight", op |-> op, outcome |-> outcome,
                           ret |-> NoReturn, ctxDone |-> FALSE,
                           peers |-> rpcCalls[c].peers,
                           made |-> rpcCalls[c].made + 1,
                           abortedBefore |-> \/ rpcCalls[c].abortedBefore
                                             \/ rpcCalls[c].ret.err = Canceled.err]]
    /\ UNCHANGED concFrame

\* caller c cancels its context, or its deadline passes
ContextDone(c) ==
    /\ rpcCalls[c].st = "inflight"
    /\ ~rpcCalls[c].ctxDone
    /\ rpcCalls' = [rpcCalls EXCEPT ![c].ctxDone = TRUE]
    /\ UNCHANGED concFrame

\* the server's answer to caller c's call arrives and the operation returns
Deliver(c) ==
    /\ rpcCalls[c].st = "inflight"
    /\ rpcCalls' = [rpcCalls EXCEPT ![c].st = "returned",
                                    ![c].ret = OpReturn(rpcCalls[c].op, rpcCalls[c].outcome)]
    /\ UNCHANGED concFrame

\* client.Call gives up on caller c's call because the context it was handed
\* is done, and the operation returns
Abort(c) ==
    /\ rpcCalls[c].st = "inflight"
    /\ rpcCalls[CallContext(c)].st = "inflight"
    /\ rpcCalls[CallContext(c)].ctxDone
    /\ rpcCalls' = [rpcCalls EXCEPT ![c].st = "returned",
                                    ![c].ret = OpReturn(rpcCalls[c].op, Canceled),
                                    ![c].peers = {d \in Callers \ {c} :
                                                     rpcCalls[d].st = "inflight"}]
    /\ UNCHANGED concFrame

NextConcurrent ==
    \E c \in Callers : StartCall(c) \/ ContextDone(c) \/ Deliver(c) \/ Abort(c)

SpecConcurrent == InitConcurrent /\ [][NextConcurrent]_vars

(***************************************************************************)
(* C9: a call returns the context error only when its own context is done, *)
(* and then with a nil result; a call whose own context is not done        *)
(* returns what the server answered, whatever happened to the contexts of  *)
(* the calls in flight with it; the client's handle stays as constructed.  *)
(***************************************************************************)
C9_PerCallCancellation ==
    /\ client = "connected"
    /\ \A c \in Callers :
          rpcCalls[c].st = "returned" =>
              /\ rpcCalls[c].ret.err = "context canceled"
                    => (rpcCalls[c].ctxDone /\ rpcCalls[c].ret.result = NilResult)
              /\ ~rpcCalls[c].ctxDone
                    => /\ rpcCalls[c].ret.err = rpcCalls[c].outcome.err
                       /\ (rpcCalls[c].outcome.err = "")
                             = (rpcCalls[c].ret.result # NilResult)

\* a caller's call was aborted by its own context while another caller's was
\* in flight; the other returned the server's answer, and so did a later call
\* of the first caller
C9_Witness ==
    \E c, d \in Callers :
        /\ c # d
        /\ rpcCalls[c].abortedBefore
        /\ rpcCalls[c].st = "returned"
        /\ rpcCalls[c].ret.err = ""
        /\ rpcCalls[c].ret.result.fill = "full"
        /\ d \in rpcCalls[c].peers
        /\ rpcCalls[d].made = 1
        /\ rpcCalls[d].st = "returned"
        /\ ~rpcCalls[d].ctxDone
        /\ rpcCalls[d].ret.err = ""
        /\ rpcCalls[d].st = "returned"
        /\ ~rpcCalls[d].ctxDone
        /\ rpcCalls[d].ret.err = ""
        /\ rpcCalls[d].ret.result.fill = "full"

=============================================================================
